---- MODULE Spec2Model ----
(***************************************************************************)
(* A model of the slicer-combination pivot simulator:                      *)
(*   excel.py   load_excel_data, get_unique_slicer_values,                 *)
(*              refresh_pivot_and_read                                     *)
(*   open_ai.py analyze_dataframe, generate_data_summary,                  *)
(*              generate_fallback_analysis                                 *)
(*   main.py    generate_slicer_combinations, the module-level script      *)
(*                                                                         *)
(* Python strings are sequences of one-character strings, so that lower(), *)
(* strip() and the substring test are computed and not assumed.  A cell or *)
(* a column label is a record [k, s, n, d]: k = "s" a string s, k = "n"    *)
(* the number n/d, k = "nan" a missing value.                              *)
(***************************************************************************)
EXTENDS Integers, Sequences, FiniteSets, TLC

\* inp        the input: a table, a field map, or the workbook's sheets
\* call       the last function applied and what it returned
\* pc         the script's position; globals: the names bound in its namespace
\* sheet_i, slicer_i, combo_idx, pivot_i   the positions of its four loops
\* recorded   the invocations of save_analysis_result so far
\* attempted  the combinations of this sheet handed to refresh_pivot_and_read
\* load_failed  whether a load of this sheet has failed
VARIABLES inp, call, pc, globals, sheet_i, slicer_i, slicer_values_map,
          slicer_combinations, combo_idx, pivot_dataframes, pivot_i, result,
          recorded, attempted, load_failed

vars == <<inp, call, pc, globals, sheet_i, slicer_i, slicer_values_map,
          slicer_combinations, combo_idx, pivot_dataframes, pivot_i, result,
          recorded, attempted, load_failed>>

(***************************************************************************)
(* Bounds of the model.                                                    *)
(***************************************************************************)
MaxRows == 3

MaxVals == 2

(***************************************************************************)
(* Values.                                                                 *)
(***************************************************************************)
Str(s) == [k |-> "s", s |-> s, n |-> 0, d |-> 1]

Num(n) == [k |-> "n", s |-> <<>>, n |-> n, d |-> 1]

Ratio(n, d) == [k |-> "n", s |-> <<>>, n |-> n, d |-> d]

NaN == [k |-> "nan", s |-> <<>>, n |-> 0, d |-> 1]

IsMissing(v) == v.k = "nan"

(***************************************************************************)
(* str methods.                                                            *)
(***************************************************************************)
UpperChars == <<"A", "B", "C", "D", "E", "F", "G", "H", "I", "J", "K", "L", "M",
                "N", "O", "P", "Q", "R", "S", "T", "U", "V", "W", "X", "Y", "Z">>

LowerChars == <<"a", "b", "c", "d", "e", "f", "g", "h", "i", "j", "k", "l", "m",
                "n", "o", "p", "q", "r", "s", "t", "u", "v", "w", "x", "y", "z">>

LowerChar(c) ==
    IF \E i \in 1..Len(UpperChars) : UpperChars[i] = c
    THEN LowerChars[CHOOSE i \in 1..Len(UpperChars) : UpperChars[i] = c]
    ELSE c

RECURSIVE lower(_)
lower(s) == IF s = <<>> THEN <<>> ELSE <<LowerChar(Head(s))>> \o lower(Tail(s))

RECURSIVE lstrip(_)
lstrip(s) == IF s # <<>> /\ Head(s) = " " THEN lstrip(Tail(s)) ELSE s

RECURSIVE rstrip(_)
rstrip(s) ==
    IF s # <<>> /\ s[Len(s)] = " " THEN rstrip(SubSeq(s, 1, Len(s) - 1)) ELSE s

strip(s) == rstrip(lstrip(s))

\* Python's  sub in s  on strings.
contains(sub, s) ==
    \E i \in 0..(Len(s) - Len(sub)) : SubSeq(s, i + 1, i + Len(sub)) = sub

Digits == <<"0", "1", "2", "3", "4", "5", "6", "7", "8", "9">>

RECURSIVE IntToStr(_)
IntToStr(n) ==
    IF n < 10 THEN <<Digits[n + 1]>>
    ELSE IntToStr(n \div 10) \o <<Digits[(n % 10) + 1]>>

\* str(x) of a label or of an element of an object column.
PyStr(v) ==
    CASE v.k = "s" -> v.s
      [] v.k = "n" -> IntToStr(v.n)
      [] OTHER -> <<"n", "a", "n">>

\* Series.astype(str), elementwise, for a column of the given dtype.
AsTypeStr(v, dtype) ==
    CASE v.k = "nan" -> <<"n", "a", "n">>
      [] v.k = "s" -> v.s
      [] dtype = "float64" -> IntToStr(v.n) \o <<".", "0">>
      [] OTHER -> IntToStr(v.n)

(***************************************************************************)
(* Tables: [cols, dtypes, index, rows], rows in loader order.              *)
(***************************************************************************)
Column(t, j) == [i \in 1..Len(t.rows) |-> t.rows[i][j]]

\* The dtype pandas gives a column read from a sheet.
InferDType(cells) ==
    IF Len(cells) = 0 THEN "object"
    ELSE IF \E i \in 1..Len(cells) : cells[i].k = "s" THEN "object"
    ELSE IF \E i \in 1..Len(cells) : cells[i].k = "nan" THEN "float64"
    ELSE "int64"

IsNumeric(dtype) == dtype \in {"int64", "float64"}

\* A new frame: dtypes inferred per column, a fresh RangeIndex.
DataFrame(cols, rows) ==
    [cols |-> cols,
     dtypes |-> [j \in 1..Len(cols) |->
                    InferDType([i \in 1..Len(rows) |-> rows[i][j]])],
     index |-> [i \in 1..Len(rows) |-> i - 1],
     rows |-> rows]

\* pd.DataFrame()
EmptyDataFrame == [cols |-> <<>>, dtypes |-> <<>>, index |-> <<>>, rows |-> <<>>]

\* load_excel_data: the table of the sheet, or the reader's exception re-raised.
load_excel_data(ok, table) ==
    IF ok THEN [exc |-> "none", value |-> table]
    ELSE [exc |-> "LoadError", value |-> EmptyDataFrame]

(***************************************************************************)
(* Column resolution.                                                      *)
(***************************************************************************)
\* The test of excel.py:49-51 and excel.py:103-105 on one column label.
FuzzyMatch(col, slicer_name) ==
    LET col_str == strip(PyStr(col))
    IN  \/ contains(lower(slicer_name), lower(col_str))
        \/ contains(lower(col_str), lower(slicer_name))
        \/ lower(col_str) = lower(slicer_name)

\* The labels that pass the test, in column order.
RECURSIVE FuzzyColumns(_, _)
FuzzyColumns(cols, slicer_name) ==
    IF cols = <<>> THEN <<>>
    ELSE (IF FuzzyMatch(Head(cols), slicer_name) THEN <<Head(cols)>> ELSE <<>>)
         \o FuzzyColumns(Tail(cols), slicer_name)

\* get_unique_slicer_values: possible_columns.
PossibleColumns(cols, slicer_name) ==
    LET possible_columns == FuzzyColumns(cols, slicer_name)
    IN  IF possible_columns = <<>>
             /\ \E j \in 1..Len(cols) : cols[j] = Str(slicer_name)
        THEN <<Str(slicer_name)>>
        ELSE possible_columns

\* refresh_pivot_and_read: matching_columns.
MatchingColumns(cols, slicer_name) == FuzzyColumns(cols, slicer_name)

\* The position of a label among the columns (labels are unique keys).
ColIndex(cols, label) == CHOOSE j \in 1..Len(cols) : cols[j] = label

(***************************************************************************)
(* get_unique_slicer_values.                                               *)
(***************************************************************************)
skip_terms ==
    << <<"t", "o", "t", "a", "l">>,
       <<"g", "r", "a", "n", "d", " ", "t", "o", "t", "a", "l">>,
       <<"s", "u", "m">>,
       <<"a", "v", "e", "r", "a", "g", "e">>,
       <<"a", "v", "g">>,
       <<"(", "b", "l", "a", "n", "k", ")">>,
       <<"b", "l", "a", "n", "k">> >>

\* df[column].dropna().astype(str).str.strip()
RECURSIVE DropnaStrStrip(_, _)
DropnaStrStrip(cells, dtype) ==
    IF cells = <<>> THEN <<>>
    ELSE (IF IsMissing(Head(cells)) THEN <<>>
          ELSE <<strip(AsTypeStr(Head(cells), dtype))>>)
         \o DropnaStrStrip(Tail(cells), dtype)

\* unique_values[unique_values != '']
RECURSIVE NonEmpty(_)
NonEmpty(vals) ==
    IF vals = <<>> THEN <<>>
    ELSE (IF Head(vals) # <<>> THEN <<Head(vals)>> ELSE <<>>) \o NonEmpty(Tail(vals))

\* No deduplication.
UniqueKeepAll(vals, seen) == vals

\* Series.unique(): distinct values in order of first appearance.
RECURSIVE Unique(_, _)
Unique(vals, seen) ==
    IF vals = <<>> THEN <<>>
    ELSE IF Head(vals) \in seen THEN Unique(Tail(vals), seen)
    ELSE <<Head(vals)>> \o Unique(Tail(vals), seen \cup {Head(vals)})

IsNoise(val) == \E t \in 1..Len(skip_terms) : contains(skip_terms[t], lower(val))

\* The loop of excel.py:69-71.
RECURSIVE DropNoise(_)
DropNoise(vals) ==
    IF vals = <<>> THEN <<>>
    ELSE (IF ~IsNoise(Head(vals)) THEN <<Head(vals)>> ELSE <<>>)
         \o DropNoise(Tail(vals))

\* excel.py:62-74 for a resolved column.
UniqueValues(df, column) ==
    LET j == ColIndex(df.cols, column)
        unique_values == Unique(NonEmpty(DropnaStrStrip(Column(df, j), df.dtypes[j])), {})
    IN  DropNoise(unique_values)

\* The body of the try block: the values, or the exception that left it.
GetUniqueBody(ok, table, slicer_name) ==
    LET ld == load_excel_data(ok, table)
    IN  IF ld.exc # "none" THEN [exc |-> ld.exc, value |-> <<>>]
        ELSE LET possible_columns == PossibleColumns(ld.value.cols, slicer_name)
             IN  IF possible_columns # <<>>
                 THEN [exc |-> "none",
                       value |-> UniqueValues(ld.value, possible_columns[1])]
                 ELSE [exc |-> "none", value |-> <<>>]

\* get_unique_slicer_values: any exception of the body becomes [].
get_unique_slicer_values(ok, table, slicer_name) ==
    LET r == GetUniqueBody(ok, table, slicer_name)
    IN  IF r.exc # "none" THEN [exc |-> "none", value |-> <<>>] ELSE r

(***************************************************************************)
(* refresh_pivot_and_read.  A FilterSet (a dict) is a sequence of          *)
(* <<field, value>> pairs with distinct fields, in insertion order.  A     *)
(* PivotResult (a dict) is a sequence of [name, df] entries; a name is the *)
(* f-string's prefix and the sheet name.                                   *)
(***************************************************************************)
\* mask = filtered_df[column].astype(str).str.strip() == str(slicer_value).strip():
\* the positions where the mask is True, from position i on.
RECURSIVE MaskTrue(_, _, _, _)
MaskTrue(df, j, slicer_value, i) ==
    IF i > Len(df.rows) THEN <<>>
    ELSE (IF strip(AsTypeStr(df.rows[i][j], df.dtypes[j])) = strip(slicer_value)
          THEN <<i>> ELSE <<>>)
         \o MaskTrue(df, j, slicer_value, i + 1)

\* filtered_df[mask]: the rows kept, with their index labels and the dtypes.
BoolIndex(df, keep) ==
    [cols |-> df.cols,
     dtypes |-> df.dtypes,
     index |-> [k \in 1..Len(keep) |-> df.index[keep[k]]],
     rows |-> [k \in 1..Len(keep) |-> df.rows[keep[k]]]]

\* The mask taken on, and applied to, the loaded table instead of the working one.
ApplyFilterToSource(filtered_df, df, slicer_name, slicer_value) ==
    LET matching_columns == MatchingColumns(df.cols, slicer_name)
    IN  IF matching_columns # <<>>
        THEN LET j == ColIndex(df.cols, matching_columns[1])
             IN  BoolIndex(df, MaskTrue(df, j, slicer_value, 1))
        ELSE filtered_df

\* One pass of the loop of excel.py:98-113; df and filtered_df are both in scope.
ApplyFilter(filtered_df, df, slicer_name, slicer_value) ==
    LET matching_columns == MatchingColumns(filtered_df.cols, slicer_name)
    IN  IF matching_columns # <<>>
        THEN LET j == ColIndex(filtered_df.cols, matching_columns[1])
             IN  BoolIndex(filtered_df, MaskTrue(filtered_df, j, slicer_value, 1))
        ELSE filtered_df

\* The working table before the loop and after each of its passes.
RECURSIVE FilterTrace(_, _, _)
FilterTrace(filtered_df, df, slicer_values) ==
    <<filtered_df>> \o
    (IF slicer_values = <<>> THEN <<>>
     ELSE FilterTrace(ApplyFilter(filtered_df, df, Head(slicer_values)[1],
                                  Head(slicer_values)[2]),
                      df, Tail(slicer_values)))

\* The matching column of each pass, <<>> where none matched.
RECURSIVE ResolvedColumns(_, _)
ResolvedColumns(cols, slicer_values) ==
    IF slicer_values = <<>> THEN <<>>
    ELSE <<MatchingColumns(cols, Head(slicer_values)[1])>>
         \o ResolvedColumns(cols, Tail(slicer_values))

\* The non-missing values of a column.
RECURSIVE Present(_)
Present(cells) ==
    IF cells = <<>> THEN <<>>
    ELSE (IF IsMissing(Head(cells)) THEN <<>> ELSE <<Head(cells).n>>)
         \o Present(Tail(cells))

RECURSIVE SeqSum(_)
SeqSum(xs) == IF xs = <<>> THEN 0 ELSE Head(xs) + SeqSum(Tail(xs))

RECURSIVE SeqMin(_)
SeqMin(xs) ==
    IF Len(xs) = 1 THEN Head(xs)
    ELSE LET m == SeqMin(Tail(xs)) IN IF Head(xs) < m THEN Head(xs) ELSE m

RECURSIVE SeqMax(_)
SeqMax(xs) ==
    IF Len(xs) = 1 THEN Head(xs)
    ELSE LET m == SeqMax(Tail(xs)) IN IF Head(xs) > m THEN Head(xs) ELSE m

\* Series.sum(), .mean(), .count(), .min(), .max(): missing values skipped.
SeriesSum(cells) == Num(SeqSum(Present(cells)))

SeriesCount(cells) == Num(Len(Present(cells)))

\* The mean taken over every row, the missing ones included.
MeanOverAllRows(cells) ==
    LET xs == Present(cells)
    IN  IF xs = <<>> THEN NaN ELSE Ratio(SeqSum(xs), Len(cells))

SeriesMean(cells) ==
    LET xs == Present(cells)
    IN  IF xs = <<>> THEN NaN ELSE Ratio(SeqSum(xs), Len(xs))

SeriesMin(cells) == LET xs == Present(cells) IN IF xs = <<>> THEN NaN ELSE Num(SeqMin(xs))

SeriesMax(cells) == LET xs == Present(cells) IN IF xs = <<>> THEN NaN ELSE Num(SeqMax(xs))

\* select_dtypes(include=['number']).columns: positions of the numeric columns.
RECURSIVE NumericColumns(_, _)
NumericColumns(df, j) ==
    IF j > Len(df.cols) THEN <<>>
    ELSE (IF IsNumeric(df.dtypes[j]) THEN <<j>> ELSE <<>>) \o NumericColumns(df, j + 1)

\* select_dtypes(include=['object', 'string']).columns
RECURSIVE TextColumns(_, _)
TextColumns(df, j) ==
    IF j > Len(df.cols) THEN <<>>
    ELSE (IF df.dtypes[j] = "object" THEN <<j>> ELSE <<>>) \o TextColumns(df, j + 1)

SummaryCols ==
    <<Str(<<"M", "e", "t", "r", "i", "c">>), Str(<<"S", "u", "m">>),
      Str(<<"A", "v", "e", "r", "a", "g", "e">>), Str(<<"C", "o", "u", "n", "t">>),
      Str(<<"M", "i", "n">>), Str(<<"M", "a", "x">>)>>

\* One entry of summary_data, as a row in the order of its keys.
SummaryRow(df, j) ==
    LET cells == Column(df, j)
    IN  <<df.cols[j], SeriesSum(cells), SeriesMean(cells), SeriesCount(cells),
          SeriesMin(cells), SeriesMax(cells)>>

\* len(filtered_df) >= 0 in place of > 0: no empty marker.
BuildPivotsNoMarker(filtered_df, sheet_name) ==
    LET numeric_columns == NumericColumns(filtered_df, 1)
        summary_data == [r \in 1..Len(numeric_columns) |->
                            SummaryRow(filtered_df, numeric_columns[r])]
    IN  <<[name |-> <<"Filtered_Data", sheet_name>>, df |-> filtered_df]>>
        \o (IF Len(numeric_columns) > 0 /\ Len(summary_data) > 0
            THEN <<[name |-> <<"Summary", sheet_name>>,
                    df |-> DataFrame(SummaryCols, summary_data)]>>
            ELSE <<>>)

\* excel.py:116-149 for the narrowed table.
BuildPivots(filtered_df, sheet_name) ==
    IF Len(filtered_df.rows) > 0
    THEN LET numeric_columns == NumericColumns(filtered_df, 1)
             summary_data == [r \in 1..Len(numeric_columns) |->
                                 SummaryRow(filtered_df, numeric_columns[r])]
         IN  <<[name |-> <<"Filtered_Data", sheet_name>>, df |-> filtered_df]>>
             \o (IF Len(numeric_columns) > 0 /\ Len(summary_data) > 0
                 THEN <<[name |-> <<"Summary", sheet_name>>,
                         df |-> DataFrame(SummaryCols, summary_data)]>>
                 ELSE <<>>)
    ELSE <<[name |-> <<"Empty", sheet_name>>, df |-> EmptyDataFrame]>>

\* The body of the try block: the PivotResult, or the exception that left it.
\* steps is the trace of filtered_df, kept for the properties below.
PivotBody(ok, table, sheet_name, slicer_values) ==
    LET ld == load_excel_data(ok, table)
    IN  IF ld.exc # "none" THEN [exc |-> ld.exc, value |-> <<>>, steps |-> <<>>]
        ELSE LET steps == FilterTrace(ld.value, ld.value, slicer_values)
             IN  [exc |-> "none",
                  value |-> BuildPivots(steps[Len(steps)], sheet_name),
                  steps |-> steps]

\* refresh_pivot_and_read: any exception of the body becomes {}.
refresh_pivot_and_read(ok, table, sheet_name, slicer_values) ==
    LET r == PivotBody(ok, table, sheet_name, slicer_values)
    IN  IF r.exc # "none" THEN [exc |-> "none", value |-> <<>>, steps |-> <<>>]
        ELSE r

(***************************************************************************)
(* analyze_dataframe.  A text is the sequence of the parts joined into it; *)
(* a part is [kind, col, x, y] with the values formatted into it.          *)
(***************************************************************************)
Part(kind, col, x, y) == [kind |-> kind, col |-> col, x |-> x, y |-> y]

Line(kind) == Part(kind, NaN, NaN, NaN)

\* ', '.join(labels): TypeError unless every label is a str.
JoinRaises(df, positions) ==
    \E p \in 1..Len(positions) : p <= 5 /\ df.cols[positions[p]].k # "s"

\* The number of missing cells of the frame: df.isnull().sum().sum()
MissingCount(df) ==
    Cardinality({<<i, j>> \in (1..Len(df.rows)) \X (1..Len(df.cols)) :
                    IsMissing(df.rows[i][j])})

\* generate_data_summary: the parts, or the exception raised.
generate_data_summary(df) ==
    LET numeric_cols == NumericColumns(df, 1)
        text_cols == TextColumns(df, 1)
    IN  IF JoinRaises(df, numeric_cols) \/ JoinRaises(df, text_cols)
        THEN [exc |-> "TypeError", value |-> <<>>]
        ELSE [exc |-> "none",
              value |->
                <<Part("shape", NaN, Num(Len(df.rows)), Num(Len(df.cols)))>>
                \o (IF numeric_cols # <<>>
                    THEN <<Part("numeric_columns", NaN, Num(Len(numeric_cols)), NaN)>>
                    ELSE <<>>)
                \o (IF text_cols # <<>>
                    THEN <<Part("text_columns", NaN, Num(Len(text_cols)), NaN)>>
                    ELSE <<>>)
                \o (IF MissingCount(df) > 0
                    THEN <<Part("missing_data", NaN, Num(MissingCount(df)), NaN)>>
                    ELSE <<>>)
                \o (IF numeric_cols # <<>>
                    THEN <<Line("numeric_summaries")>>
                         \o [p \in 1..(IF Len(numeric_cols) < 3 THEN Len(numeric_cols) ELSE 3) |->
                               Part("describe", df.cols[numeric_cols[p]],
                                    SeriesMin(Column(df, numeric_cols[p])),
                                    SeriesMax(Column(df, numeric_cols[p])))]
                    ELSE <<>>)]

\* Series.nunique(): distinct non-missing values.
NUnique(cells) ==
    Cardinality({cells[i] : i \in {i \in 1..Len(cells) : ~IsMissing(cells[i])}})

\* generate_fallback_analysis: the parts of the text.
generate_fallback_analysis(df) ==
    LET numeric_cols == NumericColumns(df, 1)
        text_cols == TextColumns(df, 1)
    IN  <<Line("BASIC DATA ANALYSIS:"),
          Part("records", NaN, Num(Len(df.rows)), Num(Len(df.cols)))>>
        \o (IF Len(numeric_cols) > 0
            THEN <<Line("NUMERIC ANALYSIS:")>>
                 \o [p \in 1..Len(numeric_cols) |->
                       Part("total_average", df.cols[numeric_cols[p]],
                            SeriesSum(Column(df, numeric_cols[p])),
                            SeriesMean(Column(df, numeric_cols[p])))]
            ELSE <<>>)
        \o (IF Len(text_cols) > 0
            THEN <<Line("CATEGORICAL ANALYSIS:")>>
                 \o [p \in 1..(IF Len(text_cols) < 3 THEN Len(text_cols) ELSE 3) |->
                       Part("unique_values", df.cols[text_cols[p]],
                            Num(NUnique(Column(df, text_cols[p]))), NaN)]
            ELSE <<>>)
        \o (IF MissingCount(df) > 0
            THEN <<Line("DATA QUALITY:"),
                   Part("missing_values", NaN, Num(MissingCount(df)), NaN)>>
            ELSE <<>>)
        \o <<Line("RECOMMENDATION:"), Line("review"), Line("consider")>>

\* analyze_dataframe: the text returned, or the exception that left the call.
\* service is the outcome of openai.ChatCompletion.create: "ok" or "error".
analyze_dataframe(df, context, service) ==
    LET data_summary == generate_data_summary(df)
    IN  IF data_summary.exc # "none"
        THEN [exc |-> data_summary.exc, value |-> <<>>]
        ELSE IF service = "ok"
        THEN [exc |-> "none", value |-> <<Line("response")>>]
        ELSE [exc |-> "none",
              value |-> <<Line("OpenAI Analysis Error"), Line("Fallback Analysis:")>>
                        \o generate_fallback_analysis(df)]

(***************************************************************************)
(* generate_slicer_combinations.  A dict is a sequence of <<key, value>>   *)
(* pairs with distinct keys.                                               *)
(***************************************************************************)
\* zip(*lists) in place of the product.
ZipLists(lists) ==
    IF lists = <<>> THEN << <<>> >>
    ELSE LET shortest == CHOOSE n \in {Len(lists[i]) : i \in 1..Len(lists)} :
                            \A i \in 1..Len(lists) : n <= Len(lists[i])
         IN  [p \in 1..shortest |-> [i \in 1..Len(lists) |-> lists[i][p]]]

\* itertools.product(*lists): tuples in its order, the last list fastest.
RECURSIVE product(_)
product(lists) ==
    IF lists = <<>> THEN << <<>> >>
    ELSE LET rest == product(Tail(lists))
             first == Head(lists)
         IN  [p \in 1..(Len(first) * Len(rest)) |->
                <<first[((p - 1) \div Len(rest)) + 1]>>
                \o rest[((p - 1) % Len(rest)) + 1]]

\* dict(zip(keys, combination))
DictZip(keys, combination) ==
    [i \in 1..(IF Len(keys) < Len(combination) THEN Len(keys) ELSE Len(combination))
        |-> <<keys[i], combination[i]>>]

generate_slicer_combinations(slicer_values_map_) ==
    LET keys == [i \in 1..Len(slicer_values_map_) |-> slicer_values_map_[i][1]]
        values_product ==
            product([i \in 1..Len(slicer_values_map_) |-> slicer_values_map_[i][2]])
    IN  [c \in 1..Len(values_product) |-> DictZip(keys, values_product[c])]

(***************************************************************************)
(* Input universes.                                                        *)
(***************************************************************************)
sClient == <<"C", "l", "i", "e", "n", "t">>

sClientName == <<"C", "l", "i", "e", "n", "t", " ", "N", "a", "m", "e">>

sRegion == <<"R", "e", "g", "i", "o", "n">>

sAmount == <<"A", "m", "o", "u", "n", "t">>

sVP == <<"V", "P">>

sProgram == <<"P", "r", "o", "g", "r", "a", "m">>

sType == <<"T", "y", "p", "e">>

sTotal == <<"T", "o", "t", "a", "l">>

\* A layout: the column labels of a sheet and the cells each column may hold.
Layouts ==
    { [cols |-> <<Str(sRegion), Str(sAmount)>>,
       cells |-> <<{Str(<<"A">>), Str(<<"B">>)}, {Num(5), Num(15)}>>],
      [cols |-> <<Str(sAmount)>>,
       cells |-> <<{Num(10), Num(20), NaN}>>],
      [cols |-> <<Str(sClientName), Str(sClient)>>,
       cells |-> <<{Str(<<"A">>), Str(<<" ", "A", " ">>), Str(sTotal), Str(<<>>), NaN},
                   {Str(<<"X">>)}>>],
      [cols |-> <<Num(2024), Str(sRegion)>>,
       cells |-> <<{Num(7), NaN}, {Str(<<"A">>)}>>] }

RowsOf(layout) ==
    {r \in [1..Len(layout.cols) -> UNION {layout.cells[j] : j \in 1..Len(layout.cols)}] :
        \A j \in 1..Len(layout.cols) : r[j] \in layout.cells[j]}

\* The tables of the two worked scenarios: Amount = [10, 20, 30], and
\* Region = [A, A, B] with Amount = [5, 15, 25].
AmountColumn(xs) == DataFrame(<<Str(sAmount)>>, [i \in 1..Len(xs) |-> <<Num(xs[i])>>])

RegionAmount ==
    DataFrame(<<Str(sRegion), Str(sAmount)>>,
              << <<Str(<<"A">>), Num(5)>>, <<Str(<<"A">>), Num(15)>>,
                 <<Str(<<"B">>), Num(25)>> >>)

Tables ==
    {AmountColumn(<<10, 20, 30>>), RegionAmount}
    \cup UNION {{DataFrame(layout.cols, rows) : rows \in [1..n -> RowsOf(layout)]} :
                  <<layout, n>> \in Layouts \X (0..MaxRows)}

Queries == {sClient, lower(sClient), sRegion, sAmount, sVP, IntToStr(2024)}

FilterPairs ==
    {<<sRegion, <<"A">>>>, <<sRegion, <<"Z">>>>, <<sAmount, IntToStr(15)>>,
     <<sClient, <<"A">>>>, <<sVP, <<"A">>>>}

FilterSets ==
    {<<>>} \cup {<<p>> : p \in FilterPairs}
    \cup {<<p, q>> : <<p, q>> \in {pq \in FilterPairs \X FilterPairs : pq[1][1] # pq[2][1]}}

SheetName == "Sheet"

NoCall == [op |-> "none"]

(***************************************************************************)
(* The functions applied to a loaded table.                                *)
(***************************************************************************)
Idle ==
    /\ pc = "idle" /\ globals = {} /\ sheet_i = 0 /\ slicer_i = 0
    /\ slicer_values_map = <<>> /\ slicer_combinations = <<>> /\ combo_idx = 0
    /\ pivot_dataframes = <<>> /\ pivot_i = 0 /\ result = <<>> /\ recorded = <<>>
    /\ attempted = <<>> /\ load_failed = FALSE

script_vars == <<pc, globals, sheet_i, slicer_i, slicer_values_map,
                 slicer_combinations, combo_idx, pivot_dataframes, pivot_i, result,
                 recorded, attempted, load_failed>>

InitFn == inp \in Tables /\ call = NoCall /\ Idle

CallExtract ==
    /\ call.op = "none"
    /\ \E ok \in BOOLEAN, slicer_name \in Queries :
         call' = [op |-> "extract", ok |-> ok, slicer_name |-> slicer_name,
                  resolved |-> PossibleColumns(inp.cols, slicer_name),
                  result |-> get_unique_slicer_values(ok, inp, slicer_name)]
    /\ UNCHANGED <<inp, script_vars>>

CallPivot ==
    /\ call.op = "none"
    /\ \E ok \in BOOLEAN, slicer_values \in FilterSets :
         \* a failed load gives {} whatever the FilterSet: the short ones suffice
         /\ ok \/ Len(slicer_values) <= 1
         /\ call' = [op |-> "pivot", ok |-> ok, slicer_values |-> slicer_values,
                  resolved |-> ResolvedColumns(inp.cols, slicer_values),
                  result |-> refresh_pivot_and_read(ok, inp, SheetName, slicer_values)]
    /\ UNCHANGED <<inp, script_vars>>

CallAnalyze ==
    /\ call.op = "none"
    /\ \E service \in {"ok", "error"} :
       \E e \in 1..Len(refresh_pivot_and_read(TRUE, inp, SheetName, <<>>).value) :
         LET df == refresh_pivot_and_read(TRUE, inp, SheetName, <<>>).value[e].df
         IN  call' = [op |-> "analyze", df |-> df, service |-> service,
                      result |-> analyze_dataframe(df, <<>>, service)]
    /\ UNCHANGED <<inp, script_vars>>

NextFn == CallExtract \/ CallPivot \/ CallAnalyze

SpecFn == InitFn /\ [][NextFn]_vars

(***************************************************************************)
(* generate_slicer_combinations applied to a field map.                    *)
(***************************************************************************)
ValueLists == UNION {[1..n -> {<<"A">>, <<"B">>}] : n \in 0..MaxVals}

FieldLists == {<<>>, <<sClient>>, <<sClient, sVP>>, <<sClient, sVP, sProgram>>}

FieldMaps ==
    UNION {{[i \in 1..Len(fields) |-> <<fields[i], vals[i]>>] :
              vals \in [1..Len(fields) -> ValueLists]} : fields \in FieldLists}

InitCombine == inp \in FieldMaps /\ call = NoCall /\ Idle

CallCombine ==
    /\ call.op = "none"
    /\ call' = [op |-> "combine", result |-> generate_slicer_combinations(inp)]
    /\ UNCHANGED <<inp, script_vars>>

NextCombine == CallCombine

SpecCombine == InitCombine /\ [][NextCombine]_vars

(***************************************************************************)
(* Successive pivot simulations of one sheet, as the loop of main.py:64-67 *)
(* makes them, with the FilterSets in any order.                           *)
(***************************************************************************)
MaxCalls == 2

MaxSeqRows == 2

SeqTables ==
    {AmountColumn(<<10, 20, 30>>), RegionAmount}
    \cup UNION {{DataFrame(layout.cols, rows) : rows \in [1..n -> RowsOf(layout)]} :
                  <<layout, n>> \in Layouts \X (0..MaxSeqRows)}

SeqFilterSets ==
    {slicer_values \in FilterSets : Len(slicer_values) <= 1}
    \cup { << <<sRegion, <<"A">>>>, <<sAmount, IntToStr(15)>> >>,
           << <<sClient, <<"A">>>>, <<sVP, <<"A">>>> >> }

\* A later call that starts from the frame the call before it narrowed.
KeepFilteredFrame(file_table, filtered_df) == filtered_df

\* excel.py:93: df is bound anew in every call to what the file holds; the
\* frame an earlier call left in its local filtered_df (excel.py:96, 113) is
\* not read, and no statement of the function writes the file or df.
SourceFrame(file_table, filtered_df) == file_table

InitSeq == inp \in SeqTables /\ call = NoCall /\ Idle

\* One more call of refresh_pivot_and_read(file_path, sheet, combo) on the same
\* file.  call.previous is the frame the calls before it last narrowed, and
\* call.filtered_df the one this call leaves.
CallPivotSeq ==
    /\ call.op \in {"none", "pivot"}
    /\ LET n == IF call.op = "none" THEN 0 ELSE call.n
           previous == IF call.op = "none" THEN inp ELSE call.filtered_df
           table == IF call.op = "none" THEN inp ELSE SourceFrame(inp, call.filtered_df)
       IN  /\ n < MaxCalls
           /\ \E ok \in BOOLEAN, slicer_values \in SeqFilterSets :
                LET r == refresh_pivot_and_read(ok, table, SheetName, slicer_values)
                IN  /\ ok \/ slicer_values = <<>>
                    /\ call' = [op |-> "pivot", n |-> n + 1, ok |-> ok,
                                slicer_values |-> slicer_values,
                                resolved |-> ResolvedColumns(inp.cols, slicer_values),
                                previous |-> previous,
                                filtered_df |-> IF ok THEN r.steps[Len(r.steps)]
                                                ELSE previous,
                                result |-> r]
    /\ UNCHANGED <<inp, script_vars>>

NextSeq == CallPivotSeq

SpecSeq == InitSeq /\ [][NextSeq]_vars

(***************************************************************************)
(* The script of main.py, from line 37 on.  Lines 28-34 only print.        *)
(***************************************************************************)
sheets_to_analyze ==
    <<[sheet |-> "Monthly Variance Dynamic CPR", slicers |-> <<sClient, sVP, sProgram>>],
      [sheet |-> "CPR Common Size", slicers |-> <<sClient, sType>>]>>

LargeCombinations == 20

\* The names bound when the loop of line 37 starts: the imports and the one def
\* above it.
InitialGlobals ==
    {"get_unique_slicer_values", "refresh_pivot_and_read", "debug_excel_structure",
     "analyze_excel_file_structure", "analyze_dataframe", "batch_analyze_dataframes",
     "product", "os", "datetime", "file_path", "sheets_to_analyze",
     "generate_slicer_combinations"}

Cell2(a, b) == Str(<<a, b>>)

\* The workbooks: each a table for each configured sheet.
Workbooks ==
    { <<DataFrame(<<Str(sClient), Str(sVP), Str(sProgram), Str(sAmount)>>,
                  << <<Cell2("c", "1"), Cell2("v", "1"), Cell2("p", "1"), Num(10)>>,
                     <<Cell2("c", "2"), Cell2("v", "2"), Cell2("p", "2"), Num(20)>>,
                     <<Cell2("c", "3"), Cell2("v", "3"), Cell2("p", "3"), Num(30)>> >>),
        DataFrame(<<Str(sClient), Str(sType)>>,
                  << <<Cell2("c", "1"), Cell2("t", "1")>>,
                     <<Cell2("c", "2"), Cell2("t", "1")>> >>)>>,
      <<DataFrame(<<Str(sClient), Str(sVP), Str(sProgram), Num(2024)>>,
                  << <<Cell2("c", "1"), Cell2("v", "1"), Cell2("p", "1"), Num(10)>>,
                     <<Cell2("c", "2"), Cell2("v", "1"), Cell2("p", "2"), NaN>> >>),
        DataFrame(<<Str(sClient)>>, << <<Cell2("c", "1")>> >>)>>,
      <<DataFrame(<<Str(sClientName), Str(sClient), Str(sVP), Str(sProgram)>>,
                  << <<Str(<<"X">>), Cell2("c", "1"), Cell2("v", "1"), Str(sTotal)>>,
                     <<Str(<<"Y">>), Cell2("c", "1"), Cell2("v", "1"), Cell2("p", "1")>> >>),
        DataFrame(<<Str(sType), Str(sClient)>>,
                  << <<Num(1), Cell2("c", "1")>>, <<Num(2), Cell2("c", "2")>> >>)>> }

\* input(): the line typed, or EOFError when stdin is closed.
InputOutcomes ==
    {[exc |-> "none", value |-> line] : line \in {<<"y">>, <<"Y">>, <<"n">>}}
    \cup {[exc |-> "EOFError", value |-> <<>>]}

Init ==
    /\ inp \in Workbooks
    /\ call = NoCall
    /\ pc = "sheet"
    /\ globals = InitialGlobals
    /\ sheet_i = 1
    /\ slicer_i = 0
    /\ slicer_values_map = <<>>
    /\ slicer_combinations = <<>>
    /\ combo_idx = 0
    /\ pivot_dataframes = <<>>
    /\ pivot_i = 0
    /\ result = <<>>
    /\ recorded = <<>>
    /\ attempted = <<>>
    /\ load_failed = FALSE

sheet == sheets_to_analyze[sheet_i].sheet

slicer_fields == sheets_to_analyze[sheet_i].slicers

\* slicer_values_map[slicer] = values
DictSet(dict, key, value) ==
    IF \E i \in 1..Len(dict) : dict[i][1] = key
    THEN [i \in 1..Len(dict) |-> IF dict[i][1] = key THEN <<key, value>> ELSE dict[i]]
    ELSE Append(dict, <<key, value>>)

\* `break` in place of the `continue` of line 71.
BreakAfterNoData(idx, n) == n + 1

\* The `continue` of line 71: on to the next combination of the enumeration.
ContinueAfterNoData(idx, n) == idx + 1

\* Lines 37-43: the next configured sheet, or past the loop.
NextSheet ==
    /\ pc = "sheet"
    /\ IF sheet_i <= Len(sheets_to_analyze)
       THEN /\ slicer_values_map' = <<>>
            /\ slicer_i' = 1
            /\ attempted' = <<>>
            /\ load_failed' = FALSE
            /\ pc' = "slicers"
       ELSE /\ pc' = "def_save"
            /\ UNCHANGED <<slicer_values_map, slicer_i, attempted, load_failed>>
    /\ UNCHANGED <<inp, call, globals, sheet_i, slicer_combinations, combo_idx,
                   pivot_dataframes, pivot_i, result, recorded>>

\* Lines 44-51: one slicer field's values; an exception skips the sheet.
GetSlicerValues ==
    /\ pc = "slicers"
    /\ slicer_i <= Len(slicer_fields)
    /\ \E ok \in BOOLEAN :
         LET r == get_unique_slicer_values(ok, inp[sheet_i], slicer_fields[slicer_i])
         IN  /\ call' = [op |-> "extract", ok |-> ok, result |-> r]
             /\ load_failed' = (load_failed \/ ~ok)
             /\ IF r.exc # "none"
                THEN /\ sheet_i' = sheet_i + 1
                     /\ pc' = "sheet"
                     /\ UNCHANGED <<slicer_values_map, slicer_i>>
                ELSE /\ slicer_values_map' =
                          DictSet(slicer_values_map, slicer_fields[slicer_i], r.value)
                     /\ slicer_i' = slicer_i + 1
                     /\ UNCHANGED <<sheet_i, pc>>
    /\ UNCHANGED <<inp, globals, slicer_combinations, combo_idx, pivot_dataframes,
                   pivot_i, result, recorded, attempted>>

\* Lines 53-62: the combinations, and the prompt when there are many; nothing
\* catches an exception of input(), which ends the script.
Combine ==
    /\ pc = "slicers"
    /\ slicer_i > Len(slicer_fields)
    /\ LET combinations == generate_slicer_combinations(slicer_values_map)
       IN  /\ slicer_combinations' = combinations
           /\ \E response \in InputOutcomes :
                IF Len(combinations) > LargeCombinations
                THEN IF response.exc # "none"
                     THEN /\ pc' = "terminated"
                          /\ UNCHANGED <<sheet_i, combo_idx>>
                     ELSE IF lower(response.value) # <<"y">>
                     THEN /\ sheet_i' = sheet_i + 1
                          /\ pc' = "sheet"
                          /\ UNCHANGED combo_idx
                     ELSE /\ combo_idx' = 1
                          /\ pc' = "combo"
                          /\ UNCHANGED sheet_i
                ELSE /\ combo_idx' = 1
                     /\ pc' = "combo"
                     /\ UNCHANGED sheet_i
    /\ UNCHANGED <<inp, call, globals, slicer_i, slicer_values_map, pivot_dataframes,
                   pivot_i, result, recorded, attempted, load_failed>>

\* Lines 64-71 and 110-111: the next combination's pivot simulation.
Simulate ==
    /\ pc = "combo"
    /\ IF combo_idx > Len(slicer_combinations)
       THEN /\ sheet_i' = sheet_i + 1
            /\ pc' = "sheet"
            /\ UNCHANGED <<call, combo_idx, pivot_dataframes, pivot_i, attempted,
                           load_failed>>
       ELSE \E ok \in BOOLEAN :
              LET r == refresh_pivot_and_read(ok, inp[sheet_i], sheet,
                                              slicer_combinations[combo_idx])
              IN  /\ call' = [op |-> "pivot", ok |-> ok, result |-> r]
                  /\ attempted' = Append(attempted, combo_idx)
                  /\ load_failed' = (load_failed \/ ~ok)
                  /\ UNCHANGED sheet_i
                  /\ IF r.exc # "none"
                     THEN /\ combo_idx' = combo_idx + 1
                          /\ UNCHANGED <<pc, pivot_dataframes, pivot_i>>
                     ELSE /\ pivot_dataframes' = r.value
                          /\ IF r.value = <<>>
                             THEN /\ combo_idx' =
                                       ContinueAfterNoData(combo_idx, Len(slicer_combinations))
                                  /\ UNCHANGED <<pc, pivot_i>>
                             ELSE /\ pivot_i' = 1
                                  /\ pc' = "pivot"
                                  /\ UNCHANGED combo_idx
    /\ UNCHANGED <<inp, globals, slicer_i, slicer_values_map, slicer_combinations,
                   result, recorded>>

\* df and pivot_name of line 73: the pivot table the inner loop is at.
pivot_df == pivot_dataframes[pivot_i].df

pivot_name == pivot_dataframes[pivot_i].name

\* Lines 73-94 and 105-106: the next table of the PivotResult, dispatched unless empty.
Dispatch ==
    /\ pc = "pivot"
    /\ IF pivot_i > Len(pivot_dataframes)
       THEN /\ combo_idx' = combo_idx + 1
            /\ pc' = "combo"
            /\ UNCHANGED <<call, pivot_i, result>>
       ELSE IF Len(pivot_df.rows) = 0 \/ Len(pivot_df.cols) = 0
       THEN /\ pivot_i' = pivot_i + 1
            /\ UNCHANGED <<call, combo_idx, pc, result>>
       ELSE \E service \in {"ok", "error"} :
              LET analysis_context ==
                      [sheet_name |-> sheet, pivot_name |-> pivot_name,
                       filters |-> slicer_combinations[combo_idx],
                       combination_number |-> <<combo_idx, Len(slicer_combinations)>>]
                  r == analyze_dataframe(pivot_df, analysis_context, service)
              IN  /\ call' = [op |-> "analyze", service |-> service, result |-> r]
                  /\ UNCHANGED combo_idx
                  /\ IF r.exc # "none"
                     THEN /\ pivot_i' = pivot_i + 1
                          /\ UNCHANGED <<pc, result>>
                     ELSE /\ result' = r.value
                          /\ pc' = "save"
                          /\ UNCHANGED pivot_i
    /\ UNCHANGED <<inp, globals, sheet_i, slicer_i, slicer_values_map,
                   slicer_combinations, pivot_dataframes, recorded, attempted,
                   load_failed>>

\* What the script hands to save_analysis_result at line 103.
SaveArguments ==
    [sheet_name |-> sheet, pivot_name |-> pivot_name,
     combo |-> slicer_combinations[combo_idx], analysis |-> result,
     data_shape |-> <<Len(pivot_df.rows), Len(pivot_df.cols)>>]

\* Lines 96-106: the result printed, then save_analysis_result looked up and
\* called; a name not bound yet is a NameError, caught at line 105.  The
\* function catches its own failures (lines 116-142).
Save ==
    /\ pc = "save"
    /\ recorded' = IF "save_analysis_result" \in globals
                   THEN Append(recorded, SaveArguments)
                   ELSE recorded
    /\ pivot_i' = pivot_i + 1
    /\ pc' = "pivot"
    /\ UNCHANGED <<inp, call, globals, sheet_i, slicer_i, slicer_values_map,
                   slicer_combinations, combo_idx, pivot_dataframes, result,
                   attempted, load_failed>>

\* Line 114: def save_analysis_result binds the name.
DefineSave ==
    /\ pc = "def_save"
    /\ globals' = globals \cup {"save_analysis_result"}
    /\ pc' = "done"
    /\ UNCHANGED <<inp, call, sheet_i, slicer_i, slicer_values_map,
                   slicer_combinations, combo_idx, pivot_dataframes, pivot_i, result,
                   recorded, attempted, load_failed>>

Next ==
    \/ NextSheet
    \/ GetSlicerValues
    \/ Combine
    \/ Simulate
    \/ Dispatch
    \/ Save
    \/ DefineSave

Spec == Init /\ [][Next]_vars

(***************************************************************************)
(* Properties of the functions.                                            *)
(***************************************************************************)
PivotCall == call.op = "pivot" /\ call.ok

ExtractCall == call.op = "extract" /\ call.ok

\* The rules of the resolver, stated on one label.
ExactRule(col, q) == col = Str(q)

SubstringRule(col, q) ==
    LET c == lower(strip(PyStr(col)))
    IN  contains(lower(q), c) \/ contains(c, lower(q)) \/ c = lower(q)

\* What the claimed resolver returns for q: the exact match if there is one, and
\* nothing if no column satisfies a rule.
ResolvesAsClaimed(cols, q, resolved) ==
    /\ \A j \in 1..Len(cols) :
         ExactRule(cols[j], q) => resolved # <<>> /\ resolved[1] = cols[j]
    /\ (\A j \in 1..Len(cols) : ~ExactRule(cols[j], q) /\ ~SubstringRule(cols[j], q))
         => resolved = <<>>

\* C2: a query that is exactly a column name resolves to that column, in the
\* extractor and in every pass of the pivot simulator, and a query no rule
\* matches resolves to nothing.
C2_ExactMatchWins ==
    /\ ExtractCall => ResolvesAsClaimed(inp.cols, call.slicer_name, call.resolved)
    /\ PivotCall =>
         \A k \in 1..Len(call.slicer_values) :
            ResolvesAsClaimed(inp.cols, call.slicer_values[k][1], call.resolved[k])

\* The rows of the loaded table that every resolvable filter of the call accepts.
PassingRows ==
    {i \in 1..Len(inp.rows) :
       \A k \in 1..Len(call.slicer_values) :
          call.resolved[k] # <<>> =>
             LET j == ColIndex(inp.cols, call.resolved[k][1])
             IN  strip(AsTypeStr(inp.rows[i][j], inp.dtypes[j]))
                   = strip(call.slicer_values[k][2])}

\* The rows of sub are rows of df, in df's order.
IsNarrowingOf(sub, df) ==
    /\ sub.cols = df.cols
    /\ \A a \in 1..Len(sub.rows) :
         \E b \in 1..Len(df.rows) :
            sub.index[a] = df.index[b] /\ sub.rows[a] = df.rows[b]
    /\ \A a, b \in 1..Len(sub.rows) : a < b => sub.index[a] < sub.index[b]

RowCount(pivots) ==
    IF \E e \in 1..Len(pivots) : pivots[e].name[1] = "Filtered_Data"
    THEN Len(pivots[CHOOSE e \in 1..Len(pivots) : pivots[e].name[1] = "Filtered_Data"].df.rows)
    ELSE 0

FieldsOf(slicer_values) == {slicer_values[k][1] : k \in 1..Len(slicer_values)}

\* C4: each filter leaves a subset of the rows before it, in the original
\* order; a filter that resolves to no column leaves them unchanged; and the
\* FilterSet extended by one more pair never yields more rows.
C4_Narrowing ==
    PivotCall =>
      LET steps == call.result.steps
      IN  /\ Len(steps) = Len(call.slicer_values) + 1
          /\ steps[1] = inp
          /\ \A k \in 1..Len(call.slicer_values) :
               /\ IsNarrowingOf(steps[k + 1], steps[k])
               /\ call.resolved[k] = <<>> => steps[k + 1] = steps[k]
          /\ \A pair \in FilterPairs :
               pair[1] \notin FieldsOf(call.slicer_values) =>
                 RowCount(refresh_pivot_and_read(TRUE, inp, SheetName,
                                                 Append(call.slicer_values, pair)).value)
                   <= RowCount(call.result.value)

\* Two filters, each of which removed a row.
C4_Witness ==
    /\ PivotCall
    /\ Len(call.slicer_values) = 2
    /\ Len(call.result.steps[3].rows) < Len(call.result.steps[2].rows)
    /\ Len(call.result.steps[2].rows) < Len(call.result.steps[1].rows)
    /\ Len(call.result.steps[3].rows) > 0

\* The rows of the loaded table at the given positions, in order.
RowsAt(S) ==
    LET RECURSIVE From(_)
        From(i) == IF i > Len(inp.rows) THEN <<>>
                   ELSE (IF i \in S THEN <<inp.rows[i]>> ELSE <<>>) \o From(i + 1)
    IN  From(1)

\* C5: zero rows left give exactly the empty marker named by the sheet; otherwise
\* the result is the filtered-data table of the rows left and, if and only if a
\* column is numeric, one summary table; and no empty marker.
C5_ResultShape ==
    PivotCall =>
      LET pivots == call.result.value
      IN  IF PassingRows = {}
          THEN pivots = <<[name |-> <<"Empty", SheetName>>, df |-> EmptyDataFrame]>>
          ELSE /\ Len(pivots) \in {1, 2}
               /\ pivots[1].name = <<"Filtered_Data", SheetName>>
               /\ pivots[1].df.rows = RowsAt(PassingRows)
               /\ pivots[1].df.cols = inp.cols
               /\ Len(pivots) = 2 <=> \E j \in 1..Len(inp.cols) : IsNumeric(inp.dtypes[j])
               /\ Len(pivots) = 2 => pivots[2].name = <<"Summary", SheetName>>

\* A filter that matched no row of a non-empty table.
C5_Witness ==
    /\ PivotCall
    /\ Len(inp.rows) > 0
    /\ Len(call.result.value) = 1
    /\ call.result.value[1].name[1] = "Empty"

RECURSIVE SetSum(_, _)
SetSum(S, f) ==
    IF S = {} THEN 0 ELSE LET i == CHOOSE i \in S : TRUE IN f[i] + SetSum(S \ {i}, f)

\* The summary row claimed for column j over the rows that passed.
SummaryRowAsClaimed(row, j) ==
    LET present == {i \in PassingRows : ~IsMissing(inp.rows[i][j])}
        val == [i \in 1..Len(inp.rows) |-> inp.rows[i][j].n]
    IN  /\ row[1] = inp.cols[j]
        /\ row[2] = Num(SetSum(present, val))
        /\ row[4] = Num(Cardinality(present))
        /\ present # {} =>
             /\ row[3].k = "n" /\ row[3].n = row[2].n /\ row[3].d = row[4].n
             /\ row[5].k = "n" /\ row[5].d = 1
             /\ \E i \in present : val[i] = row[5].n
             /\ \A i \in present : row[5].n <= val[i]
             /\ row[6].k = "n" /\ row[6].d = 1
             /\ \E i \in present : val[i] = row[6].n
             /\ \A i \in present : val[i] <= row[6].n

\* The number n as the value of a summary cell.
IsNumber(v, n) == v.k = "n" /\ v.n = n * v.d

SummaryIs(row, sum, average, count, min, max) ==
    /\ IsNumber(row[2], sum) /\ IsNumber(row[3], average) /\ IsNumber(row[4], count)
    /\ IsNumber(row[5], min) /\ IsNumber(row[6], max)

\* C6: the summary has one row per numeric column with Metric, Sum, Count, Min,
\* Max and Average = Sum / Count of the non-missing values of the rows that passed;
\* [10, 20, 30] gives 60, 20, 3, 10, 30, and {Region: [A,A,B], Amount: [5,15,25]}
\* under {Region: "A"} gives the rows [5, 15] and 20, 10, 2, 5, 15.
C6_SummaryCorrect ==
    (PivotCall /\ PassingRows # {}) =>
      LET pivots == call.result.value
          numeric == NumericColumns(inp, 1)
      IN  /\ numeric # <<>> =>
               /\ Len(pivots) = 2
               /\ pivots[2].df.cols = SummaryCols
               /\ Len(pivots[2].df.rows) = Len(numeric)
               /\ \A r \in 1..Len(numeric) :
                    SummaryRowAsClaimed(pivots[2].df.rows[r], numeric[r])
          /\ (inp = AmountColumn(<<10, 20, 30>>) /\ call.slicer_values = <<>>) =>
               SummaryIs(pivots[2].df.rows[1], 60, 20, 3, 10, 30)
          /\ (inp = RegionAmount /\ call.slicer_values = << <<sRegion, <<"A">>>> >>) =>
               /\ pivots[1].df.rows = << <<Str(<<"A">>), Num(5)>>, <<Str(<<"A">>), Num(15)>> >>
               /\ SummaryIs(pivots[2].df.rows[1], 20, 10, 2, 5, 15)

\* The end-to-end scenario.
C6_Witness ==
    /\ PivotCall
    /\ inp = RegionAmount
    /\ call.slicer_values = << <<sRegion, <<"A">>>> >>
    /\ Len(call.result.value) = 2

NoiseTerms ==
    {<<"t", "o", "t", "a", "l">>,
     <<"g", "r", "a", "n", "d", " ", "t", "o", "t", "a", "l">>,
     <<"s", "u", "m">>, <<"a", "v", "e", "r", "a", "g", "e">>, <<"a", "v", "g">>,
     <<"(", "b", "l", "a", "n", "k", ")">>, <<"b", "l", "a", "n", "k">>}

\* C7: the extractor's list has no empty string, no value containing a noise
\* term, no duplicate; every value is the trimmed string form of a non-missing
\* cell of the resolved column; and the values are in first-seen row order.
C7_ExtractorOutput ==
    (ExtractCall /\ call.resolved # <<>>) =>
      LET out == call.result.value
          j == ColIndex(inp.cols, call.resolved[1])
          rowsOf(v) == {i \in 1..Len(inp.rows) :
                          /\ ~IsMissing(inp.rows[i][j])
                          /\ strip(AsTypeStr(inp.rows[i][j], inp.dtypes[j])) = v}
          first(v) == CHOOSE i \in rowsOf(v) : \A i2 \in rowsOf(v) : i <= i2
      IN  /\ \A a \in 1..Len(out) :
               /\ out[a] # <<>>
               /\ \A t \in NoiseTerms : ~contains(t, lower(out[a]))
               /\ rowsOf(out[a]) # {}
          /\ \A a, b \in 1..Len(out) : a # b => out[a] # out[b]
          /\ \A a, b \in 1..Len(out) : a < b => first(out[a]) < first(out[b])

\* Three rows holding a padded value, its trimmed twin and a total, extracted
\* through a query that two columns match.
C7_Witness ==
    /\ ExtractCall
    /\ Len(inp.rows) = 3
    /\ inp.cols[1] = Str(sClientName)
    /\ {inp.rows[i][1] : i \in 1..3} = {Str(<<" ", "A", " ">>), Str(sTotal), Str(<<"A">>)}
    /\ call.slicer_name = sClient
    /\ call.resolved = <<Str(sClientName), Str(sClient)>>
    /\ call.result.value = << <<"A">> >>

\* C8: analyze_dataframe never ends in an exception, and when the service call
\* fails it returns non-empty fallback text holding the table's row count.
C8_AnalyzeNeverRaises ==
    call.op = "analyze" =>
      /\ call.result.exc = "none"
      /\ call.service = "error" =>
           /\ call.result.value # <<>>
           /\ \E p \in 1..Len(call.result.value) :
                /\ call.result.value[p].kind = "records"
                /\ call.result.value[p].x = Num(Len(call.df.rows))

RECURSIVE LenProduct(_)
LenProduct(m) == IF m = <<>> THEN 1 ELSE Len(Head(m)[2]) * LenProduct(Tail(m))

\* C3: the combinations are exactly the product of the fields' value counts,
\* each assigning one value of M[f] to every field f, in M's field order: none
\* if a field has no value, and one empty FilterSet for the empty map.
C3_CartesianProduct ==
    call.op = "combine" =>
      LET out == call.result
      IN  /\ Len(out) = LenProduct(inp)
          /\ \A c \in 1..Len(out) :
               /\ Len(out[c]) = Len(inp)
               /\ \A i \in 1..Len(inp) :
                    /\ out[c][i][1] = inp[i][1]
                    /\ \E v \in 1..Len(inp[i][2]) : out[c][i][2] = inp[i][2][v]
          /\ \A pick \in [1..Len(inp) -> 1..MaxVals] :
               (\A i \in 1..Len(inp) : pick[i] <= Len(inp[i][2])) =>
                  \E c \in 1..Len(out) :
                     \A i \in 1..Len(inp) : out[c][i][2] = inp[i][2][pick[i]]
          /\ (\E i \in 1..Len(inp) : inp[i][2] = <<>>) => out = <<>>
          /\ inp = <<>> => out = << <<>> >>

\* Three fields with two values each: eight combinations.
C3_Witness ==
    /\ call.op = "combine"
    /\ Len(inp) = 3
    /\ \A i \in 1..Len(inp) : Len(inp[i][2]) = 2 /\ inp[i][2][1] # inp[i][2][2]
    /\ Len(call.result) = 8

(***************************************************************************)
(* Properties of the script.                                               *)
(***************************************************************************)
\* C1: once analyze_dataframe has returned text for a table, the next step
\* invokes save_analysis_result with the sheet, the result name, the FilterSet,
\* the text and the table's shape.
C1_RecorderInvokedNext ==
    [][pc = "save" => recorded' = Append(recorded, SaveArguments)]_vars

\* C9: once a load of the sheet has failed, no later combination of that sheet
\* is handed to the pivot simulator.
C9_LoadFailureAbortsSheet ==
    [][(pc = "combo" /\ load_failed) => attempted' = attempted]_vars

\* C10: refresh_pivot_and_read returns and never raises, with {} when the load
\* failed; and the combinations handed to it are exactly 1, 2, ... in order, up to
\* the one the loop is at, whatever happened to the earlier ones.
C10_EveryCombinationAttempted ==
    /\ call.op = "pivot" =>
         /\ call.result.exc = "none"
         /\ ~call.ok => call.result.value = <<>>
    /\ pc \in {"combo", "pivot", "save"} =>
         LET reached == IF pc = "combo" THEN combo_idx - 1 ELSE combo_idx
         IN  /\ Len(attempted) = reached
             /\ \A k \in 1..reached : attempted[k] = k

\* The loop over several combinations is through, and a load failed on the way.
C10_Witness ==
    /\ pc = "combo"
    /\ Len(slicer_combinations) >= 2
    /\ combo_idx = Len(slicer_combinations) + 1
    /\ load_failed
    /\ Len(attempted) = Len(slicer_combinations)

\* C11: filters do not accumulate across combinations.  Whatever calls were
\* made before it, and in whatever order, a call starts from the table the file
\* holds, and its result is the one that table and its own FilterSet determine:
\* the rows of the table that its filters accept, in order and under their
\* positions, the empty marker if there is none, and the summary of these rows.
C11_FiltersDoNotAccumulate ==
    PivotCall =>
      LET pivots == call.result.value
          numeric == NumericColumns(inp, 1)
      IN  /\ call.result.steps[1] = inp
          /\ IF PassingRows = {}
             THEN pivots = <<[name |-> <<"Empty", SheetName>>, df |-> EmptyDataFrame]>>
             ELSE /\ pivots[1].name = <<"Filtered_Data", SheetName>>
                  /\ pivots[1].df.rows = RowsAt(PassingRows)
                  /\ IsNarrowingOf(pivots[1].df, inp)
                  /\ Len(pivots) = IF numeric = <<>> THEN 1 ELSE 2
                  /\ numeric # <<>> =>
                       /\ Len(pivots[2].df.rows) = Len(numeric)
                       /\ \A r \in 1..Len(numeric) :
                            SummaryRowAsClaimed(pivots[2].df.rows[r], numeric[r])

\* A call after an earlier one, whose result has rows that the earlier call
\* had filtered out.
C11_Witness ==
    /\ PivotCall
    /\ call.n >= 2
    /\ Len(call.result.value) = 2
    /\ Len(call.previous.rows) < Len(call.result.value[1].df.rows)

====
